---- MODULE Spec2Model ----
(***************************************************************************)
(* gsunit.js: the assertion library GsUnit, the failure value AssertFail   *)
(* and the sequential test driver RunTests.                                *)
(*                                                                         *)
(* JavaScript values are records with the same five fields whatever their  *)
(* kind, so that any two of them can be compared:                          *)
(*   k    the kind: "number", "NaN", "string", "boolean", "null",          *)
(*        "undefined", "array", "function", "error"                        *)
(*   n    the value of a number                                            *)
(*   b    the value of a boolean; for a function, whether its source text  *)
(*        (Function.prototype.toString) matches the pattern /.*\(\)/       *)
(*   s    the characters of a string; for a function, the name of its      *)
(*        body; for an error object <<name, operator, code>> followed by   *)
(*        the pieces of its message                                        *)
(*   sub  the elements of an array; for an AssertFail <<actual, expected>> *)
(***************************************************************************)
EXTENDS Integers, Sequences, FiniteSets

VARIABLES
    numAsserts,   \* GsUnit.numAsserts
    showDefault,  \* GsUnit.showDefault
    lastCall,     \* the last call made on the GsUnit object from outside a run, and how it ended
    testList,     \* RunTests._testList
    pass,         \* RunTests.pass
    fail,         \* RunTests.fail
    err,          \* RunTests.err
    gsunit,       \* RunTests.gsunit: "unit" (the GsUnit object) or "null"
    showResults,  \* RunTests.showResults
    pc,           \* where the driver is: "idle", or "running" inside the loop of runTests
    idx,          \* the position of the array iterator of the loop of runTests
    lastOp,       \* the last call made on the driver from outside a run, and how it ended
    invoked,      \* the test functions that call has called, in call order
    results,      \* the outcomes that call has reported, in order
    summaries,    \* the summaries that call has emitted, in order
    afterReset,   \* whether that call is a runTests() called directly after resetTests()
    iter,         \* the array the loop of that runTests() iterates: its elements, and
                  \* whether it is still the array this._testList refers to
    sinceReset    \* since the last resetTests() or the construction: the addTest calls
                  \* rejected before the first runTests(), and runs = 0 when no
                  \* runTests() has begun, 1 when that call is the first one, else 2

vars == <<numAsserts, showDefault, lastCall, testList, pass, fail, err, gsunit,
          showResults, pc, idx, invoked, results, summaries, lastOp, afterReset,
          iter, sinceReset>>

unitVars == <<numAsserts, showDefault, lastCall>>

runVars == <<testList, pass, fail, err, gsunit, showResults, pc, idx, invoked,
             results, summaries, lastOp, afterReset, iter, sinceReset>>

----------------------------------------------------------------------------
\* Bounds of the model.

MaxAsserts == 4

MaxTests == 3

MaxCount == 4

MaxCalls == 2

----------------------------------------------------------------------------
\* JavaScript values.

Val(k, n, b, s, sub) == [k |-> k, n |-> n, b |-> b, s |-> s, sub |-> sub]

Num(n) == Val("number", n, FALSE, <<>>, <<>>)

NaN == Val("NaN", 0, FALSE, <<>>, <<>>)

Str(s) == Val("string", 0, FALSE, s, <<>>)

Bool(b) == Val("boolean", 0, b, <<>>, <<>>)

Null == Val("null", 0, FALSE, <<>>, <<>>)

Undefined == Val("undefined", 0, FALSE, <<>>, <<>>)

Arr(elems) == Val("array", 0, FALSE, <<>>, elems)

\* A function: the name of its body, and whether its source text matches /.*\(\)/.
Fun(body, labelled) == Val("function", 0, labelled, <<body>>, <<>>)

\* The typeof operator.
typeof(x) ==
    CASE x.k \in {"number", "NaN"} -> "number"
      [] x.k \in {"null", "array", "error"} -> "object"
      [] OTHER -> x.k

\* The language type of a value, as the equality algorithms use it.
Type(x) ==
    CASE x.k \in {"number", "NaN"} -> "Number"
      [] x.k \in {"array", "error", "function"} -> "Object"
      [] OTHER -> x.k

IsNullish(x) == x.k \in {"null", "undefined"}

Digits == <<"0", "1", "2", "3", "4", "5", "6", "7", "8", "9">>

IsDigit(c) == \E i \in 1..10 : Digits[i] = c

DigitVal(c) == (CHOOSE i \in 1..10 : Digits[i] = c) - 1

RECURSIVE TrimLeft(_)
TrimLeft(s) == IF s # <<>> /\ Head(s) = " " THEN TrimLeft(Tail(s)) ELSE s

RECURSIVE TrimRight(_)
TrimRight(s) ==
    IF s # <<>> /\ s[Len(s)] = " " THEN TrimRight(SubSeq(s, 1, Len(s) - 1)) ELSE s

RECURSIVE DecimalValue(_)
DecimalValue(s) ==
    IF s = <<>> THEN 0 ELSE 10 * DecimalValue(SubSeq(s, 1, Len(s) - 1)) + DigitVal(s[Len(s)])

\* ToNumber applied to a string of digits, letters and blanks: white space is
\* trimmed, the empty string is 0, a string of decimal digits is its value, any
\* other string is NaN.
StringToNumber(s) ==
    LET t == TrimRight(TrimLeft(s))
    IN  IF t = <<>> THEN Num(0)
        ELSE IF \A i \in 1..Len(t) : IsDigit(t[i]) THEN Num(DecimalValue(t))
        ELSE NaN

\* ToNumber on the primitive values.
ToNumber(x) ==
    CASE x.k = "number" -> x
      [] x.k = "boolean" -> IF x.b THEN Num(1) ELSE Num(0)
      [] x.k = "null" -> Num(0)
      [] x.k = "string" -> StringToNumber(x.s)
      [] OTHER -> NaN

\* ToBoolean: false, 0, NaN, '', null and undefined are falsy.
ToBoolean(x) ==
    CASE x.k = "boolean" -> x.b
      [] x.k = "number" -> x.n # 0
      [] x.k = "string" -> x.s # <<>>
      [] x.k \in {"NaN", "null", "undefined"} -> FALSE
      [] OTHER -> TRUE

\* x === y on primitive values.
StrictEq(x, y) == Type(x) = Type(y) /\ x.k # "NaN" /\ y.k # "NaN" /\ x = y

\* x == y on primitive values: the strict comparison for two values of one type,
\* null == undefined, and the comparison of the ToNumber images otherwise.
LooseEq(x, y) ==
    IF Type(x) = Type(y) THEN StrictEq(x, y)
    ELSE IF IsNullish(x) /\ IsNullish(y) THEN TRUE
    ELSE IF IsNullish(x) \/ IsNullish(y) THEN FALSE
    ELSE LET nx == ToNumber(x)
             ny == ToNumber(y)
         IN  nx.k = "number" /\ ny.k = "number" /\ nx.n = ny.n

RECURSIVE DigitsOf(_)
DigitsOf(n) ==
    IF n < 10 THEN <<Digits[n + 1]>> ELSE DigitsOf(n \div 10) \o <<Digits[(n % 10) + 1]>>

\* '' + x on primitive values.
JSToString(x) ==
    CASE x.k = "number" -> IF x.n < 0 THEN <<"-">> \o DigitsOf(0 - x.n) ELSE DigitsOf(x.n)
      [] x.k = "string" -> x.s
      [] x.k = "boolean" -> IF x.b THEN <<"true">> ELSE <<"false">>
      [] OTHER -> <<x.k>>

\* String.prototype.includes.
includes(s, t) == \E i \in 0..(Len(s) - Len(t)) : SubSeq(s, i + 1, i + Len(t)) = t

----------------------------------------------------------------------------
\* Error objects.

\* new Error(message) and its subclasses by name.
ErrorObj(pName, pMessage) == Val("error", 0, FALSE, <<pName, "", "">> \o pMessage, <<>>)

\* class AssertFail extends Error.
AssertFail(pMsg, pActual, pExpected, pOperator, pCode) ==
    Val("error", 0, FALSE,
        <<"AssertFail", pOperator, pCode>>
            \o <<"for ", pOperator, ". ">> \o pMsg
            \o (IF pCode # "" THEN <<" [", pCode, "]">> ELSE <<>>),
        <<pActual, pExpected>>)

IsErrorObj(e) == e.k = "error"

\* The fields of an error object.
name(e) == e.s[1]

operator(e) == e.s[2]

code(e) == e.s[3]

message(e) == SubSeq(e.s, 4, Len(e.s))

actual(e) == e.sub[1]

expected(e) == e.sub[2]

----------------------------------------------------------------------------
\* class GsUnit.  A method takes the object's state, this = [numAsserts,
\* showDefault], and yields the state after the call and how the call ended:
\* out = "return" with the value returned, or out = "throw" with the value raised.

Ret(this, v) == [this |-> this, out |-> "return", val |-> v]

Thr(this, e) == [this |-> this, out |-> "throw", val |-> e]

\* ++this.numAsserts
Counted(this) == [this EXCEPT !.numAsserts = @ + 1]

\* _default(pMsg, pDefault): the pieces of the message of a failure.
_default(this, pMsg, pDefault) ==
    IF pMsg = "" THEN pDefault
    ELSE IF pDefault # <<>> /\ this.showDefault THEN pDefault \o <<" ", pMsg>>
    ELSE <<pMsg>>

\* fail(pMsg, pCode) throws, and does not count itself as an assertion.
unitFail(this, pMsg, pCode) ==
    Thr(this, AssertFail(<<pMsg>>, Bool(TRUE), Bool(FALSE), "Fail", pCode))

assertTrue(this, pMsg, pActual, pCode) ==
    LET t == Counted(this)
    IN  IF ~ToBoolean(pActual)
        THEN Thr(t, AssertFail(_default(t, pMsg, <<"Expected actual to be true.">>),
                               pActual, Bool(TRUE), "True", pCode))
        ELSE Ret(t, Undefined)

assertFalse(this, pMsg, pActual, pCode) ==
    LET t == Counted(this)
    IN  IF ToBoolean(pActual)
        THEN Thr(t, AssertFail(_default(t, pMsg, <<"Expected actual to be false.">>),
                               pActual, Bool(FALSE), "False", pCode))
        ELSE Ret(t, Undefined)

assertNull(this, pMsg, pActual, pCode) ==
    LET t == Counted(this)
    IN  IF ~LooseEq(pActual, Null)
        THEN Thr(t, AssertFail(_default(t, pMsg, <<"Expected actual to be null.">>),
                               pActual, Bool(TRUE), "Null", pCode))
        ELSE Ret(t, Undefined)

assertNotNull(this, pMsg, pActual, pCode) ==
    LET t == Counted(this)
    IN  IF LooseEq(pActual, Null)
        THEN Thr(t, AssertFail(_default(t, pMsg, <<"Expected actual to not be null.">>),
                               pActual, Bool(TRUE), "NotNull", pCode))
        ELSE Ret(t, Undefined)

assertUndefined(this, pMsg, pActual, pCode) ==
    LET t == Counted(this)
    IN  IF ~LooseEq(pActual, Undefined)
        THEN Thr(t, AssertFail(_default(t, pMsg, <<"Expected actual to be undefined.">>),
                               pActual, Bool(TRUE), "Undefined", pCode))
        ELSE Ret(t, Undefined)

assertNotUndefined(this, pMsg, pActual, pCode) ==
    LET t == Counted(this)
    IN  IF LooseEq(pActual, Undefined)
        THEN Thr(t, AssertFail(_default(t, pMsg, <<"Expected actual to not be undefined.">>),
                               pActual, Bool(TRUE), "NotUndefined", pCode))
        ELSE Ret(t, Undefined)

\* pActual != NaN holds of every value.
assertNaN(this, pMsg, pActual, pCode) ==
    LET t == Counted(this)
    IN  IF ~LooseEq(pActual, NaN)
        THEN Thr(t, AssertFail(_default(t, pMsg, <<"Expected actual to not be a number.">>),
                               pActual, Bool(TRUE), "NaN", pCode))
        ELSE Ret(t, Undefined)

\* pActual == NaN holds of no value.
assertNotNaN(this, pMsg, pActual, pCode) ==
    LET t == Counted(this)
    IN  IF LooseEq(pActual, NaN)
        THEN Thr(t, AssertFail(_default(t, pMsg, <<"Expected actual to be a number.">>),
                               pActual, Bool(TRUE), "NotNaN", pCode))
        ELSE Ret(t, Undefined)

\* assertEqual with !== in the place of !=.
assertEqualMutant(this, pMsg, pActual, pExpected, pCode) ==
    LET t == Counted(this)
    IN  IF ~StrictEq(pActual, pExpected)
        THEN Thr(t, AssertFail(<<pMsg>>, pActual, pExpected, "Equal", pCode))
        ELSE Ret(t, Undefined)

assertEqual(this, pMsg, pActual, pExpected, pCode) ==
    LET t == Counted(this)
    IN  IF ~LooseEq(pActual, pExpected)
        THEN Thr(t, AssertFail(
                 _default(t, pMsg, <<"Expected \"">> \o JSToString(pExpected)
                                   \o <<"\"\ngot \"">> \o JSToString(pActual) \o <<"\".">>),
                 pActual, pExpected, "Equal", pCode))
        ELSE Ret(t, Undefined)

assertNotEqual(this, pMsg, pActual, pExpected, pCode) ==
    LET t == Counted(this)
    IN  IF LooseEq(pActual, pExpected)
        THEN Thr(t, AssertFail(
                 _default(t, pMsg, <<"Expected \"">> \o JSToString(pActual)
                                   \o <<"\" to not equal expected value.">>),
                 pActual, pExpected, "NotEqual", pCode))
        ELSE Ret(t, Undefined)

assertTypeEqual(this, pMsg, pActual, pExpected, pCode) ==
    LET t == Counted(this)
    IN  IF ~StrictEq(pActual, pExpected)
        THEN Thr(t, AssertFail(
                 _default(t, pMsg, <<"Expected \"">> \o JSToString(pExpected)
                                   \o <<"\" to exactly equal \"">> \o JSToString(pActual)
                                   \o <<"\".">>),
                 pActual, pExpected, "TypeEqual", pCode))
        ELSE Ret(t, Undefined)

assertSameType(this, pMsg, pActual, pExpected, pCode) ==
    LET t == Counted(this)
    IN  IF typeof(pActual) # typeof(pExpected)
        THEN Thr(t, AssertFail(
                 _default(t, pMsg, <<"Expected typeof \"">> \o JSToString(pExpected)
                                   \o <<"\" to match type of \"">> \o JSToString(pActual)
                                   \o <<"\".">>),
                 pActual, pExpected, "SameType", pCode))
        ELSE Ret(t, Undefined)

\* pActual.isNaN is a property read: it throws a TypeError on null and undefined
\* and is undefined, so falsy, on every other primitive value.  The comparison
\* Math.abs(pActual - pExpected) > pTolerance is false when a side is NaN.
assertRoughlyEqual(this, pMsg, pActual, pExpected, pTolerance, pCode) ==
    LET t == Counted(this)
        a == ToNumber(pActual)
        e == ToNumber(pExpected)
        tol == ToNumber(pTolerance)
        abs == IF a.n - e.n < 0 THEN e.n - a.n ELSE a.n - e.n
    IN  IF IsNullish(pActual) \/ IsNullish(pExpected) \/ IsNullish(pTolerance)
        THEN Thr(t, ErrorObj("TypeError", <<"Cannot read property 'isNaN'">>))
        ELSE IF a.k = "number" /\ e.k = "number" /\ tol.k = "number" /\ abs > tol.n
        THEN Thr(t, AssertFail(_default(t, pMsg, <<"Out of tolerance.">>),
                               pActual, pExpected, "RoughlyEqual", pCode))
        ELSE Ret(t, Undefined)

\* The first index at which two arrays of one length differ under !==, or 0.
FirstDiff(a, e) ==
    IF \E i \in 1..Len(a) : ~StrictEq(a[i], e[i])
    THEN CHOOSE i \in 1..Len(a) :
            /\ ~StrictEq(a[i], e[i])
            /\ \A j \in 1..(i - 1) : StrictEq(a[j], e[j])
    ELSE 0

assertArrayEqual(this, pMsg, pActual, pExpected, pCode) ==
    LET t == Counted(this)
        i == FirstDiff(pActual.sub, pExpected.sub)
    IN  IF pActual.k # "array" \/ pExpected.k # "array"
        THEN Thr(t, AssertFail(<<pMsg>>, pActual, pExpected, "ArrayEqual", pCode))
        ELSE IF Len(pActual.sub) # Len(pExpected.sub)
        THEN Thr(t, AssertFail(<<pMsg>>, pActual, pExpected, "ArrayEqual", pCode))
        ELSE IF i # 0
        THEN Thr(t, AssertFail(
                 <<pMsg, "\n At index=">> \o DigitsOf(i - 1) \o <<" expected=\"">>
                     \o JSToString(pExpected.sub[i]) \o <<"\" got=\"">>
                     \o JSToString(pActual.sub[i]) \o <<"\"">>,
                 pActual.sub[i], pExpected.sub[i], "ArrayEqual", pCode))
        ELSE Ret(t, Undefined)

\* An object used as a hash: sub holds <<key1, value1, key2, value2, ...>> in
\* insertion order, each key a string value.
Hash(pairs) == Val("object", 0, FALSE, <<>>, pairs)

\* The keys of a hash in the order for-in visits them.
Keys(h) == [i \in 1..(Len(h.sub) \div 2) |-> h.sub[2 * i - 1]]

\* h[key]: undefined when the key is missing.
Get(h, key) ==
    IF \E i \in 1..(Len(h.sub) \div 2) : h.sub[2 * i - 1] = key
    THEN h.sub[2 * (CHOOSE i \in 1..(Len(h.sub) \div 2) : h.sub[2 * i - 1] = key)]
    ELSE Undefined

assertHashEqual(this, pMsg, pActual, pExpected, pCode) ==
    LET t == Counted(this)
        ka == Keys(pActual)
        ke == Keys(pExpected)
    IN  IF \E i \in 1..Len(ka) :
              \/ LooseEq(Get(pExpected, ka[i]), Undefined)
              \/ ~LooseEq(Get(pActual, ka[i]), Get(pExpected, ka[i]))
        THEN Thr(t, AssertFail(
                 _default(t, pMsg, <<"Actual key is not found in expected hash or the values are not equal.">>),
                 pActual, pExpected, "HashEqual", pCode))
        ELSE IF \E i \in 1..Len(ke) : LooseEq(Get(pActual, ke[i]), Undefined)
        THEN Thr(t, AssertFail(
                 _default(t, pMsg, <<"Expected key is not found in actual hash.">>),
                 pActual, pExpected, "HashEqual", pCode))
        ELSE Ret(t, Undefined)

assertArrayContains(this, pMsg, pActual, pValue, pCode) ==
    LET t == Counted(this)
    IN  IF pActual.k # "array"
        THEN Thr(t, AssertFail(_default(t, pMsg, <<"Actual is not an array.">>),
                               pActual, pValue, "ArrayContains", pCode))
        ELSE IF \E i \in 1..Len(pActual.sub) : LooseEq(pActual.sub[i], pValue)
        THEN Ret(t, Bool(TRUE))
        ELSE Thr(t, AssertFail(
                 _default(t, pMsg, <<"Array does not contain expected value: ">>
                                   \o JSToString(pValue)),
                 pActual, pValue, "ArrayContains", pCode))

assertStrContains(this, pMsg, pActual, pExpected, pCode) ==
    LET t == Counted(this)
    IN  IF typeof(pActual) # "string" \/ typeof(pExpected) # "string"
        THEN Thr(t, AssertFail(_default(t, pMsg, <<"One of the arugments is not a string.">>),
                               pActual, pExpected, "StrContains", pCode))
        ELSE IF ~includes(pActual.s, pExpected.s)
        THEN Thr(t, AssertFail(
                 _default(t, pMsg, <<"Expected string was not found: \"">>
                                   \o pExpected.s \o <<"\"">>),
                 pActual, pExpected, "StrContains", pCode))
        ELSE Ret(t, Undefined)

assertStrNotContains(this, pMsg, pActual, pExpected, pCode) ==
    LET t == Counted(this)
    IN  IF typeof(pActual) # "string" \/ typeof(pExpected) # "string"
        THEN Thr(t, AssertFail(_default(t, pMsg, <<"One of the arugments is not a string.">>),
                               pActual, pExpected, "StrNotContains", pCode))
        ELSE IF includes(pActual.s, pExpected.s)
        THEN Thr(t, AssertFail(
                 _default(t, pMsg, <<"Expected string was found: \"">>
                                   \o pExpected.s \o <<"\"">>),
                 pActual, pExpected, "StrNotContains", pCode))
        ELSE Ret(t, Undefined)

\* pActual(): the call of a value handed to assertThrow.  Calling a value that is
\* no function throws a TypeError.  The bodies are those of the callables drawn:
\*   "returns"      function () {}
\*   "throwsError"  function () { throw new Error('boom'); }
\*   "throwsNull"   function () { throw null; }
Call(pFun, this) ==
    IF pFun.k # "function"
    THEN Thr(this, ErrorObj("TypeError", <<"pActual is not a function">>))
    ELSE CASE pFun.s[1] = "throwsError" -> Thr(this, ErrorObj("Error", <<"boom">>))
           [] pFun.s[1] = "throwsNull" -> Thr(this, Null)
           [] OTHER -> Ret(this, Undefined)

\* try { pActual(); throw new AssertFail(...) } catch (e) { return e; }: the
\* catch clause also catches the AssertFail thrown in the try block.
assertThrow(this, pMsg, pActual, pCode) ==
    LET t == Counted(this)
        r == Call(pActual, t)
    IN  IF r.out = "throw"
        THEN Ret(r.this, r.val)
        ELSE Ret(r.this, AssertFail(_default(r.this, pMsg, <<"Expected a throw.">>),
                                    Str(<<"pActual">>), Bool(TRUE), "Throw", pCode))

----------------------------------------------------------------------------
\* The test functions registered with the driver.

\* fun(): the call of a registered test function.  The bodies are those of
\* gsunitSmokeTests and of the other test functions drawn:
\*   "testAssertsPass"    assertEqual(5, 5); assertNotEqual(5, 1)
\*   "testAssertsFail_1"  pUnit.assertEquals(...): no such method, a TypeError
\*   "testAssertsFail_2"  assertNotEqual(5, 5)
\*   "testAssertsFail_3"  assertEqual(5, 1)
\*   "callsFail"          pUnit.fail('m')
\*   "expectsThrow"       pUnit.assertThrow('m', function () {})
\*   and the bodies of Call.
Invoke(pFun, this) ==
    CASE pFun.s[1] = "testAssertsPass" ->
            LET r == assertEqual(this, "These should be equal", Num(5), Num(5), "gsst1")
            IN  IF r.out = "throw" THEN r
                ELSE assertNotEqual(r.this, "These should not be equal", Num(5), Num(1), "gsst2")
      [] pFun.s[1] = "testAssertsFail_1" ->
            Thr(this, ErrorObj("TypeError", <<"pUnit.assertEquals is not a function">>))
      [] pFun.s[1] = "testAssertsFail_2" ->
            assertNotEqual(this, "A Fail is expected here.", Num(5), Num(5), "gsst4")
      [] pFun.s[1] = "testAssertsFail_3" ->
            assertEqual(this, "A Fail is expeced here.", Num(5), Num(1), "gsst5")
      [] pFun.s[1] = "callsFail" -> unitFail(this, "m", "")
      [] pFun.s[1] = "expectsThrow" ->
            LET r == assertThrow(this, "m", Fun("returns", TRUE), "")
            IN  IF r.out = "throw" THEN r ELSE Ret(r.this, Undefined)
      [] OTHER -> Call(pFun, this)

\* The test functions drawn for addTest.  The last one is a function whose source
\* text holds no "()", such as function t( ) { }.
TestFuns ==
    {Fun("testAssertsPass", TRUE), Fun("testAssertsFail_1", TRUE),
     Fun("testAssertsFail_3", TRUE), Fun("expectsThrow", TRUE),
     Fun("throwsNull", TRUE), Fun("returns", FALSE)}

\* Values that are no functions, drawn for addTest.
NonFunctions == {Num(5), Null}

----------------------------------------------------------------------------
\* class RunTests.  The helpers of runTests take the driver's state, this =
\* [pass, fail, err, results], and end like the methods of GsUnit.

\* fDefaultArg(pArg, pDefault): the object is kept, a missing argument is the default.
fDefaultArg(pArg, pDefault) ==
    IF pArg \in {"undefined", "null", ""} THEN pDefault ELSE pArg

\* pFun.toString().match(/.*\(\)/)[0]: the label of a test function; match
\* yields null, and the index throws a TypeError, when the pattern is not found.
HasLabel(pFun) == pFun.b

Label(pFun) == pFun.s[1]

NoLabelError == ErrorObj("TypeError", <<"Cannot read property '0' of null">>)

_testPass(this, pFun) ==
    LET t == [this EXCEPT !.pass = @ + 1]
    IN  IF ~HasLabel(pFun) THEN Thr(t, NoLabelError)
        ELSE Ret([t EXCEPT !.results = Append(@, <<"Pass", Label(pFun)>>)], Undefined)

_testFail(this, pFun, pE) ==
    LET t == [this EXCEPT !.fail = @ + 1]
    IN  IF ~HasLabel(pFun) THEN Thr(t, NoLabelError)
        ELSE Ret([t EXCEPT !.results = Append(@, <<"Fail", Label(pFun)>>)], Undefined)

\* _testError that forgets ++pThis.err.
_testErrorMutant(this, pFun, pE) ==
    IF ~HasLabel(pFun) THEN Thr(this, NoLabelError)
    ELSE Ret([this EXCEPT !.results = Append(@, <<"Error", Label(pFun)>>)], Undefined)

_testError(this, pFun, pE) ==
    LET t == [this EXCEPT !.err = @ + 1]
    IN  IF ~HasLabel(pFun) THEN Thr(t, NoLabelError)
        ELSE Ret([t EXCEPT !.results = Append(@, <<"Error", Label(pFun)>>)], Undefined)

\* The catch clause of the loop of runTests: e.name is a property read, which
\* throws a TypeError when e is null or undefined.
Catch(this, pFun, e) ==
    IF IsNullish(e)
    THEN Thr(this, ErrorObj("TypeError", <<"Cannot read property 'name'">>))
    ELSE IF IsErrorObj(e) /\ name(e) = "AssertFail" THEN _testFail(this, pFun, e)
    ELSE _testError(this, pFun, e)

\* One turn of the loop of runTests: try { fun(); _testPass(this, fun); } catch (e) ...
\* Yields the driver's and the unit's state and whether the turn threw.
LoopBody(this, unit, pFun) ==
    LET r == Invoke(pFun, unit)
        p == _testPass(this, pFun)
        c == IF r.out = "throw" THEN Catch(this, pFun, r.val)
             ELSE IF p.out = "throw" THEN Catch(p.this, pFun, p.val)
             ELSE p
    IN  [this |-> c.this, unit |-> r.this, out |-> c.out, val |-> c.val]

\* The driver's state handed to the helpers, and the unit's state.
Driver == [pass |-> pass, fail |-> fail, err |-> err, results |-> results]

Unit == [numAsserts |-> numAsserts, showDefault |-> showDefault]

NoCall == [op |-> "none", args |-> <<>>, out |-> "return", val |-> Undefined, before |-> 0]

Op(op, arg, out, val) == [op |-> op, arg |-> arg, out |-> out, val |-> val]

\* sinceReset when a call follows a runTests(): the next one is not the first.
Later(sr) == IF sr.runs = 0 THEN sr ELSE [rejected |-> 0, runs |-> 2]

\* No loop of runTests has begun in the last call.
NoIter == [shared |-> FALSE, list |-> <<>>]

\* The state after new GsUnit({...}) and new RunTests({gsunit: ...}) or new RunTests({...}).
Init ==
    /\ numAsserts = 0
    /\ showDefault = TRUE
    /\ lastCall = NoCall
    /\ testList = <<>>
    /\ pass = 0
    /\ fail = 0
    /\ err = 0
    /\ gsunit \in {fDefaultArg("unit", "null"), fDefaultArg("undefined", "null")}
    /\ showResults = TRUE
    /\ pc = "idle"
    /\ idx = 0
    /\ invoked = <<>>
    /\ results = <<>>
    /\ summaries = <<>>
    /\ lastOp = Op("new", Undefined, "return", Undefined)
    /\ afterReset = FALSE
    /\ iter = NoIter
    /\ sinceReset = [rejected |-> 0, runs |-> 0]

\* tRun.showResults = b
SetShowResults(b) ==
    /\ pc = "idle"
    /\ showResults # b
    /\ showResults' = b
    /\ lastOp' = Op("showResults", Bool(b), "return", Undefined)
    /\ invoked' = <<>>
    /\ results' = <<>>
    /\ summaries' = <<>>
    /\ afterReset' = FALSE
    /\ iter' = NoIter
    /\ sinceReset' = Later(sinceReset)
    /\ UNCHANGED <<testList, pass, fail, err, gsunit, pc, idx>>
    /\ UNCHANGED unitVars

\* resetTests() that forgets this.err.
resetTestsMutant ==
    /\ pc = "idle"
    /\ fail' = 0
    /\ pass' = 0
    /\ testList' = <<>>
    /\ lastOp' = Op("resetTests", Undefined, "return", Undefined)
    /\ invoked' = <<>>
    /\ results' = <<>>
    /\ summaries' = <<>>
    /\ afterReset' = FALSE
    /\ iter' = NoIter
    /\ sinceReset' = [rejected |-> 0, runs |-> 0]
    /\ UNCHANGED <<err, gsunit, showResults, pc, idx>>
    /\ UNCHANGED unitVars

resetTests ==
    /\ pc = "idle"
    /\ err' = 0
    /\ fail' = 0
    /\ pass' = 0
    /\ testList' = <<>>
    /\ lastOp' = Op("resetTests", Undefined, "return", Undefined)
    /\ invoked' = <<>>
    /\ results' = <<>>
    /\ summaries' = <<>>
    /\ afterReset' = FALSE
    /\ iter' = NoIter
    /\ sinceReset' = [rejected |-> 0, runs |-> 0]
    /\ UNCHANGED <<gsunit, showResults, pc, idx>>
    /\ UNCHANGED unitVars

\* addTest(pTest) that throws without ++this.err.
addTestMutant(pTest) ==
    /\ pc = "idle"
    /\ IF typeof(pTest) # "function"
       THEN /\ lastOp' = Op("addTest", pTest, "throw",
                            ErrorObj("Error", <<"addTest argument is not a function.">>))
            /\ sinceReset' = Later([sinceReset EXCEPT !.rejected = @ + 1])
            /\ UNCHANGED testList
       ELSE /\ Len(testList) < MaxTests
            /\ testList' = Append(testList, pTest)
            /\ lastOp' = Op("addTest", pTest, "return", Undefined)
            /\ sinceReset' = Later(sinceReset)
    /\ invoked' = <<>>
    /\ results' = <<>>
    /\ summaries' = <<>>
    /\ afterReset' = FALSE
    /\ iter' = NoIter
    /\ UNCHANGED <<pass, fail, err, gsunit, showResults, pc, idx>>
    /\ UNCHANGED unitVars

addTest(pTest) ==
    /\ pc = "idle"
    /\ IF typeof(pTest) # "function"
       THEN /\ err < MaxCount
            /\ err' = err + 1
            /\ lastOp' = Op("addTest", pTest, "throw",
                            ErrorObj("Error", <<"addTest argument is not a function.">>))
            /\ sinceReset' = Later([sinceReset EXCEPT !.rejected = @ + 1])
            /\ UNCHANGED testList
       ELSE /\ Len(testList) < MaxTests
            /\ testList' = Append(testList, pTest)
            /\ lastOp' = Op("addTest", pTest, "return", Undefined)
            /\ sinceReset' = Later(sinceReset)
            /\ UNCHANGED err
    /\ invoked' = <<>>
    /\ results' = <<>>
    /\ summaries' = <<>>
    /\ afterReset' = FALSE
    /\ iter' = NoIter
    /\ UNCHANGED <<pass, fail, gsunit, showResults, pc, idx>>
    /\ UNCHANGED unitVars

\* The number of assertion calls the test functions of a list make: the runs
\* whose calls would take numAsserts beyond MaxAsserts are left out.
RECURSIVE AssertsOf(_)
AssertsOf(list) ==
    IF list = <<>> THEN 0
    ELSE (Invoke(Head(list), Unit).this.numAsserts - numAsserts) + AssertsOf(Tail(list))

\* testResults(): the summary, or the TypeError of this.gsunit.numAsserts when
\* this.gsunit is null, which the catch clause throws again.
testResults(this, unit) ==
    IF gsunit = "null"
    THEN Thr(<<>>, ErrorObj("TypeError", <<"Cannot read property 'numAsserts' of null">>))
    ELSE Ret(<<[pass |-> this.pass, fail |-> this.fail, err |-> this.err,
                total |-> this.pass + this.fail + this.err,
                asserts |-> unit.numAsserts]>>, Undefined)

\* runTests() up to its loop: the iterator of for (let fun of this._testList).
runTestsBegin ==
    /\ pc = "idle"
    /\ pass + fail + err + Len(testList) < MaxCount
    /\ numAsserts + AssertsOf(testList) <= MaxAsserts
    /\ pc' = "running"
    /\ idx' = 1
    /\ invoked' = <<>>
    /\ results' = <<>>
    /\ summaries' = <<>>
    /\ afterReset' = (lastOp.op = "resetTests")
    /\ iter' = [shared |-> TRUE, list |-> testList]
    /\ sinceReset' = IF sinceReset.runs = 0 THEN [sinceReset EXCEPT !.runs = 1]
                     ELSE Later(sinceReset)
    /\ lastOp' = Op("runTests", Undefined, "running", Undefined)
    /\ UNCHANGED <<testList, pass, fail, err, gsunit, showResults>>
    /\ UNCHANGED unitVars

\* listTests(): the labels of the registered test functions written to the
\* console in registration order, up to the first one that has no label, where
\* the index of the null that match yields throws.
listTests ==
    /\ pc = "idle"
    /\ LET bad == {i \in 1..Len(testList) : ~HasLabel(testList[i])}
           n == IF bad = {} THEN Len(testList)
                ELSE (CHOOSE i \in bad : \A j \in bad : i <= j) - 1
       IN  /\ results' = [i \in 1..n |-> <<"List", Label(testList[i])>>]
           /\ lastOp' = IF bad = {} THEN Op("listTests", Undefined, "return", Undefined)
                        ELSE Op("listTests", Undefined, "throw", NoLabelError)
    /\ invoked' = <<>>
    /\ summaries' = <<>>
    /\ afterReset' = FALSE
    /\ iter' = NoIter
    /\ sinceReset' = Later(sinceReset)
    /\ UNCHANGED <<testList, pass, fail, err, gsunit, showResults, pc, idx>>
    /\ UNCHANGED unitVars

\* The driver's state as a test function that calls the driver can change it.
Engine ==
    [pass |-> pass, fail |-> fail, err |-> err, results |-> results,
     testList |-> testList, iter |-> iter, sinceReset |-> sinceReset]

\* The calls a test function makes on the driver that runs it:
\*   "callsAddTest"    pTest.addTest(testAssertsPass): push on this._testList,
\*                     which the loop iterates as long as it is the same array
\*   "callsResetTests" pTest.resetTests(): the counters are 0 and this._testList
\*                     is a new array, the loop keeps the one it began with
\* The other test functions make none.
EngineCalls(pFun, this) ==
    CASE pFun.s[1] = "callsAddTest" ->
            [this EXCEPT
                !.testList = Append(@, Fun("testAssertsPass", TRUE)),
                !.iter = IF @.shared
                         THEN [@ EXCEPT !.list = Append(@, Fun("testAssertsPass", TRUE))]
                         ELSE @]
      [] pFun.s[1] = "callsResetTests" ->
            [this EXCEPT
                !.err = 0, !.fail = 0, !.pass = 0, !.testList = <<>>,
                !.iter = [@ EXCEPT !.shared = FALSE],
                !.sinceReset = [rejected |-> 0, runs |-> 0]]
      [] OTHER -> this

\* One turn of the loop; a value thrown out of the catch clause ends runTests.
runTestsLoop ==
    /\ pc = "running"
    /\ idx <= Len(iter.list)
    /\ LET fun == iter.list[idx]
           r == LoopBody(EngineCalls(fun, Engine), Unit, fun)
       IN  /\ invoked' = Append(invoked, fun)
           /\ pass' = r.this.pass
           /\ fail' = r.this.fail
           /\ err' = r.this.err
           /\ results' = r.this.results
           /\ testList' = r.this.testList
           /\ iter' = r.this.iter
           /\ sinceReset' = r.this.sinceReset
           /\ numAsserts' = r.unit.numAsserts
           /\ IF r.out = "throw"
              THEN /\ pc' = "idle"
                   /\ idx' = 0
                   /\ lastOp' = Op("runTests", Undefined, "throw", r.val)
              ELSE /\ pc' = "running"
                   /\ idx' = idx + 1
                   /\ UNCHANGED lastOp
    /\ UNCHANGED <<gsunit, showResults, summaries, afterReset, showDefault, lastCall>>

\* The end of runTests: if (this.showResults) this.testResults().
runTestsEnd ==
    /\ pc = "running"
    /\ idx > Len(iter.list)
    /\ pc' = "idle"
    /\ idx' = 0
    /\ LET r == testResults(Driver, Unit)
       IN  IF ~showResults
           THEN /\ lastOp' = Op("runTests", Undefined, "return", Undefined)
                /\ UNCHANGED summaries
           ELSE /\ summaries' = summaries \o r.this
                /\ lastOp' = Op("runTests", Undefined, r.out, r.val)
    /\ UNCHANGED <<testList, pass, fail, err, gsunit, showResults, invoked, results,
                   afterReset, iter, sinceReset>>
    /\ UNCHANGED unitVars

Next ==
    \/ \E b \in BOOLEAN : SetShowResults(b)
    \/ resetTests
    \/ \E x \in TestFuns \cup NonFunctions : addTest(x)
    \/ runTestsBegin
    \/ runTestsLoop
    \/ runTestsEnd

Spec == Init /\ [][Next]_vars

\* Test functions that call the driver that runs them.
ReentrantFuns == {Fun("callsAddTest", TRUE), Fun("callsResetTests", TRUE)}

\* The driver with test functions that call it.
NextReentrant ==
    \/ resetTests
    \/ \E x \in ReentrantFuns \cup {Fun("testAssertsPass", TRUE), Fun("testAssertsFail_3", TRUE), Null} :
          addTest(x)
    \/ runTestsBegin
    \/ runTestsLoop
    \/ runTestsEnd

SpecReentrant == Init /\ [][NextReentrant]_vars

----------------------------------------------------------------------------
\* The assertion library called directly, with arguments drawn from small sets.

\* The pairs <<pMsg, pCode>> drawn.
MsgCodes == {<<"", "">>, <<"m", "c1">>}

Prims ==
    {Num(0), Num(1), Num(5), NaN, Str(<<>>), Str(<<"5">>), Str(<<"0", "5">>),
     Str(<<"a">>), Bool(TRUE), Bool(FALSE)}

Scalars == Prims \cup {Null, Undefined}

Few == {Num(1), Num(5), NaN, Str(<<"5">>), Str(<<"0", "5">>), Null}

Tolerances == {Num(0), Num(4), Str(<<"5">>), NaN, Null}

Arrays ==
    {Arr(<<>>), Arr(<<Num(1), Num(2), Num(3)>>), Arr(<<Num(1), Num(2)>>),
     Arr(<<Num(1), Num(3), Num(2)>>), Arr(<<Num(1), Str(<<"2">>), Num(3)>>)}

Hashes ==
    {Hash(<<>>), Hash(<<Str(<<"a">>), Num(1)>>), Hash(<<Str(<<"a">>), Num(0)>>),
     Hash(<<Str(<<"a">>), Num(1), Str(<<"b">>), Str(<<"1">>)>>),
     Hash(<<Str(<<"b">>), Str(<<"1">>), Str(<<"a">>), Num(1)>>),
     Hash(<<Str(<<"a">>), Str(<<>>)>>), Hash(<<Str(<<"a">>), Null>>),
     Hash(<<Str(<<"a">>), Undefined>>), Hash(<<Str(<<"b">>), Num(1)>>)}

Callables ==
    {Fun("returns", TRUE), Fun("throwsError", TRUE), Fun("throwsNull", TRUE),
     Num(5)}

\* A call of a method of GsUnit whose result is r.
Apply(op, args, r) ==
    /\ pc = "idle"
    /\ numAsserts < MaxCalls
    /\ numAsserts' = r.this.numAsserts
    /\ lastCall' = [op |-> op, args |-> args, out |-> r.out, val |-> r.val,
                    before |-> numAsserts]
    /\ UNCHANGED showDefault
    /\ UNCHANGED runVars

NextAssert ==
    \/ \E mc \in MsgCodes : Apply("fail", <<>>, unitFail(Unit, mc[1], mc[2]))
    \/ \E mc \in MsgCodes, a \in Scalars :
          Apply("assertTrue", <<a>>, assertTrue(Unit, mc[1], a, mc[2]))
    \/ \E mc \in MsgCodes, a \in Scalars :
          Apply("assertFalse", <<a>>, assertFalse(Unit, mc[1], a, mc[2]))
    \/ \E mc \in MsgCodes, a \in Scalars :
          Apply("assertNull", <<a>>, assertNull(Unit, mc[1], a, mc[2]))
    \/ \E mc \in MsgCodes, a \in Scalars :
          Apply("assertNotNull", <<a>>, assertNotNull(Unit, mc[1], a, mc[2]))
    \/ \E mc \in MsgCodes, a \in Scalars :
          Apply("assertUndefined", <<a>>, assertUndefined(Unit, mc[1], a, mc[2]))
    \/ \E mc \in MsgCodes, a \in Scalars :
          Apply("assertNotUndefined", <<a>>, assertNotUndefined(Unit, mc[1], a, mc[2]))
    \/ \E mc \in MsgCodes, a \in Scalars :
          Apply("assertNaN", <<a>>, assertNaN(Unit, mc[1], a, mc[2]))
    \/ \E mc \in MsgCodes, a \in Scalars :
          Apply("assertNotNaN", <<a>>, assertNotNaN(Unit, mc[1], a, mc[2]))
    \/ \E mc \in MsgCodes, a \in Scalars, e \in Scalars :
          Apply("assertEqual", <<a, e>>, assertEqual(Unit, mc[1], a, e, mc[2]))
    \/ \E mc \in MsgCodes, a \in Scalars, e \in Scalars :
          Apply("assertNotEqual", <<a, e>>, assertNotEqual(Unit, mc[1], a, e, mc[2]))
    \/ \E mc \in MsgCodes, a \in Scalars, e \in Scalars :
          Apply("assertTypeEqual", <<a, e>>, assertTypeEqual(Unit, mc[1], a, e, mc[2]))
    \/ \E mc \in MsgCodes, a \in Few, e \in Few :
          Apply("assertSameType", <<a, e>>, assertSameType(Unit, mc[1], a, e, mc[2]))
    \/ \E mc \in MsgCodes, a \in Few, e \in Few, tol \in Tolerances :
          Apply("assertRoughlyEqual", <<a, e, tol>>,
                assertRoughlyEqual(Unit, mc[1], a, e, tol, mc[2]))
    \/ \E mc \in MsgCodes, a \in Arrays \cup {Num(5)}, e \in Arrays \cup {Null} :
          Apply("assertArrayEqual", <<a, e>>, assertArrayEqual(Unit, mc[1], a, e, mc[2]))
    \/ \E mc \in MsgCodes, a \in Hashes, e \in Hashes :
          Apply("assertHashEqual", <<a, e>>, assertHashEqual(Unit, mc[1], a, e, mc[2]))
    \/ \E mc \in MsgCodes, a \in Arrays \cup {Num(5)}, v \in Few :
          Apply("assertArrayContains", <<a, v>>, assertArrayContains(Unit, mc[1], a, v, mc[2]))
    \/ \E mc \in MsgCodes, a \in Few, e \in Few :
          Apply("assertStrContains", <<a, e>>, assertStrContains(Unit, mc[1], a, e, mc[2]))
    \/ \E mc \in MsgCodes, a \in Few, e \in Few :
          Apply("assertStrNotContains", <<a, e>>, assertStrNotContains(Unit, mc[1], a, e, mc[2]))
    \/ \E mc \in MsgCodes, f \in Callables :
          Apply("assertThrow", <<f>>, assertThrow(Unit, mc[1], f, mc[2]))

\* The library of a driver made with a gsunit argument.
InitAssert == Init /\ gsunit = "unit"

SpecAssert == InitAssert /\ [][NextAssert]_vars

\* The driver with listTests() and with calls of the library between its calls.
NextList ==
    \/ Next
    \/ listTests
    \/ \E a \in {Bool(TRUE), Bool(FALSE)} :
          Apply("assertTrue", <<a>>, assertTrue(Unit, "m", a, "c1"))

SpecList == Init /\ [][NextList]_vars

----------------------------------------------------------------------------
\* The claims.

\* A call of runTests() has ended, by returning or by throwing.
RunEnded == pc = "idle" /\ lastOp.op = "runTests"

IsAssertFail(e) == IsErrorObj(e) /\ name(e) = "AssertFail"

\* The loop of runTests is about to call the test function at idx.
AtTest == pc = "running" /\ idx <= Len(testList)

\* Every registered test function has a label: its source text holds "()".
AllLabelled == \A i \in 1..Len(testList) : HasLabel(testList[i])

\* C1: when a call of runTests() has ended, the test functions it has called are
\* those of the registry, each once and in registration order, whatever their
\* outcomes; and the registry [a passing test, a test that raises an AssertFail,
\* a test that raises another error] is reported as Pass, Fail, Error.  Stated
\* of the registries whose functions all have a label.
C1_EveryTestRunInOrder ==
    (RunEnded /\ AllLabelled) =>
        /\ invoked = testList
        /\ testList = <<Fun("testAssertsPass", TRUE), Fun("testAssertsFail_3", TRUE),
                        Fun("testAssertsFail_1", TRUE)>>
               => results = <<<<"Pass", "testAssertsPass">>, <<"Fail", "testAssertsFail_3">>,
                              <<"Error", "testAssertsFail_1">>>>

\* C2: a turn of the loop of runTests increases exactly one of pass, fail and err,
\* by one: pass exactly when the test function returns, fail exactly when it
\* raises an AssertFail, err exactly when it raises any other value.  Stated of
\* the test functions that have a label.
C2_ExactlyOneCounterPerTest ==
    [][(AtTest /\ HasLabel(testList[idx])) =>
        LET r == Invoke(testList[idx], Unit)
        IN  /\ <<pass', fail', err'>> \in {<<pass + 1, fail, err>>, <<pass, fail + 1, err>>,
                                           <<pass, fail, err + 1>>}
            /\ pass' = pass + 1 <=> r.out = "return"
            /\ fail' = fail + 1 <=> (r.out = "throw" /\ IsAssertFail(r.val))
            /\ err' = err + 1 <=> (r.out = "throw" /\ ~IsAssertFail(r.val))]_vars

\* C3: whatever value a test function raises (an AssertFail, another error object,
\* null), the loop of runTests counts it as a Fail or an Error and goes on to
\* the next test function: runTests does not end there by raising.
C3_RaisedValuesAreCaught ==
    [][(AtTest /\ Invoke(testList[idx], Unit).out = "throw") =>
        /\ pc' = "running"
        /\ idx' = idx + 1
        /\ (fail' = fail + 1 \/ err' = err + 1)]_vars

\* C4: every call of an assertion operation of GsUnit, fail included, leaves
\* numAsserts one larger than it was, whether the call returns or raises.
C4_EveryCallCounted ==
    lastCall.op # "none" => numAsserts = lastCall.before + 1

\* C5: assertThrow(msg, fn) returns the value fn raises when fn raises, and
\* itself raises an AssertFail of operator 'Throw' when fn returns.
C5_AssertThrowContract ==
    lastCall.op = "assertThrow" =>
        LET r == Call(lastCall.args[1], Unit)
        IN  IF r.out = "throw"
            THEN lastCall.out = "return" /\ lastCall.val = r.val
            ELSE /\ lastCall.out = "throw"
                 /\ IsAssertFail(lastCall.val)
                 /\ operator(lastCall.val) = "Throw"

\* C6: addTest(x) with x no function raises to its caller, leaves the registry,
\* pass and fail as they were and increases err by one; addTest(f) with f a
\* function appends f to the registry, returns and changes no counter.
C6_AddTestContract ==
    [][(pc = "idle" /\ lastOp'.op = "addTest") =>
        IF typeof(lastOp'.arg) # "function"
        THEN /\ lastOp'.out = "throw"
             /\ testList' = testList
             /\ <<pass', fail', err'>> = <<pass, fail, err + 1>>
        ELSE /\ lastOp'.out = "return"
             /\ testList' = Append(testList, lastOp'.arg)
             /\ <<pass', fail', err'>> = <<pass, fail, err>>]_vars

\* C6 happens: an addTest of a value that is no function has been rejected while
\* the registry held a test function.
C6_Witness ==
    /\ lastOp.op = "addTest"
    /\ lastOp.out = "throw"
    /\ lastOp.arg = Null
    /\ testList # <<>>
    /\ err = 1

\* C7: a runTests() called directly after resetTests(), on a driver that has a
\* gsunit and shows its results, calls no test function, leaves pass = fail =
\* err = 0 and emits one summary, whose five numbers are all 0.
C7_ResetThenRunReportsZeros ==
    (RunEnded /\ afterReset /\ gsunit = "unit" /\ showResults) =>
        /\ invoked = <<>>
        /\ <<pass, fail, err>> = <<0, 0, 0>>
        /\ summaries = <<[pass |-> 0, fail |-> 0, err |-> 0, total |-> 0, asserts |-> 0]>>

\* C8 as claimed: where runTests() begins to call the test functions, pass, fail and err are 0.
C8_CountersZeroAtRunStart ==
    (pc = "running" /\ idx = 1) => <<pass, fail, err>> = <<0, 0, 0>>

\* C8 as amended: runTests() does not touch pass, fail and err before its loop,
\* so they are what they were when it was called: 0 when it is called directly
\* after resetTests() or after the construction of the driver.
C8_CountersKeptUntilReset ==
    [][(pc = "idle" /\ pc' = "running") =>
        /\ <<pass', fail', err'>> = <<pass, fail, err>>
        /\ lastOp.op \in {"new", "resetTests"} => <<pass', fail', err'>> = <<0, 0, 0>>]_vars

\* C8 happens: a second runTests() with no resetTests() in between begins with
\* the counts of the first run.
C8_Witness ==
    /\ pc = "running"
    /\ idx = 1
    /\ testList = <<Fun("testAssertsPass", TRUE)>>
    /\ <<pass, fail, err>> = <<1, 0, 0>>
    /\ numAsserts = 2

\* C9: every call of runTests() ends by returning, having emitted exactly one
\* summary, which carries pass, fail, err and their sum.
C9_RunEmitsOneSummary ==
    RunEnded =>
        /\ lastOp.out = "return"
        /\ Len(summaries) = 1
        /\ summaries[1].pass = pass
        /\ summaries[1].fail = fail
        /\ summaries[1].err = err
        /\ summaries[1].total = pass + fail + err

\* C10: on numbers, strings and booleans, assertEqual returns exactly when the
\* two values are loosely equal and otherwise raises an AssertFail of operator
\* 'Equal' carrying them; assertNotEqual raises exactly when they are loosely
\* equal; assertTypeEqual returns exactly when they are strictly equal.  So
\* assertEqual passes 5, 5 and '05', 5 and raises on 5, 1 and on '5', '05', and
\* assertTypeEqual raises on 5, '5'.
C10_EqualityAssertions ==
    LET a == lastCall.args[1]
        e == lastCall.args[2]
    IN  /\ (lastCall.op = "assertEqual" /\ a \in Prims /\ e \in Prims) =>
              /\ lastCall.out = "return" <=> LooseEq(a, e)
              /\ lastCall.out = "throw" =>
                    /\ IsAssertFail(lastCall.val)
                    /\ operator(lastCall.val) = "Equal"
                    /\ actual(lastCall.val) = a
                    /\ expected(lastCall.val) = e
              /\ (a = Num(5) /\ e = Num(5)) => lastCall.out = "return"
              /\ (a = Num(5) /\ e = Num(1)) => lastCall.out = "throw"
              /\ (a = Num(5) /\ e = Str(<<"5">>)) => lastCall.out = "return"
              /\ (a = Str(<<"0", "5">>) /\ e = Num(5)) => lastCall.out = "return"
              /\ (a = Str(<<"5">>) /\ e = Str(<<"0", "5">>)) => lastCall.out = "throw"
              /\ (a = Bool(TRUE) /\ e = Num(1)) => lastCall.out = "return"
              /\ (a = Str(<<>>) /\ e = Num(0)) => lastCall.out = "return"
        /\ (lastCall.op = "assertNotEqual" /\ a \in Prims /\ e \in Prims) =>
              /\ lastCall.out = "throw" <=> LooseEq(a, e)
              /\ lastCall.out = "throw" =>
                    (IsAssertFail(lastCall.val) /\ operator(lastCall.val) = "NotEqual")
        /\ (lastCall.op = "assertTypeEqual" /\ a \in Prims /\ e \in Prims) =>
              /\ lastCall.out = "return" <=> StrictEq(a, e)
              /\ lastCall.out = "return" => (typeof(a) = typeof(e) /\ a = e)
              /\ (LooseEq(a, e) /\ ~StrictEq(a, e)) => lastCall.out = "throw"
              /\ (a = Num(5) /\ e = Str(<<"5">>)) => lastCall.out = "throw"

\* C10 happens: assertTypeEqual has raised on 5 and '5', which are loosely equal.
C10_Witness ==
    /\ lastCall.op = "assertTypeEqual"
    /\ lastCall.args = <<Num(5), Str(<<"5">>)>>
    /\ lastCall.out = "throw"
    /\ operator(lastCall.val) = "TypeEqual"

\* The set of the keys of a hash.
KeySet(h) == {Keys(h)[i] : i \in 1..Len(Keys(h))}

\* C11: assertHashEqual(m, a, e) returns exactly when a and e have the same set
\* of keys and a[k] loosely equals e[k] for every key k, the values 0, '', null
\* and undefined included and whatever the order of the keys; otherwise it
\* raises an AssertFail of operator 'HashEqual'.
C11_HashEqualContract ==
    lastCall.op = "assertHashEqual" =>
        LET a == lastCall.args[1]
            e == lastCall.args[2]
        IN  /\ lastCall.out = "return" <=>
                  /\ KeySet(a) = KeySet(e)
                  /\ \A k \in KeySet(a) : LooseEq(Get(a, k), Get(e, k))
            /\ lastCall.out = "throw" =>
                  (IsAssertFail(lastCall.val) /\ operator(lastCall.val) = "HashEqual")

\* C12: the registry changes only in an addTest of a function, which appends
\* that function after the entries it holds, and in resetTests, which empties
\* it; runTests, listTests and the calls of the library leave it as it is, and
\* listTests returns, leaves pass, fail, err and numAsserts as they are and
\* lists the labels of the registered functions in registration order.
C12_RegistryFrame ==
    [][/\ testList' # testList =>
             \/ /\ lastOp'.op = "addTest"
                /\ typeof(lastOp'.arg) = "function"
                /\ testList' = Append(testList, lastOp'.arg)
             \/ lastOp'.op = "resetTests" /\ testList' = <<>>
       /\ (pc = "running" \/ lastCall' # lastCall) => testList' = testList
       /\ (pc = "idle" /\ lastOp'.op = "listTests" /\ lastCall' = lastCall) =>
             /\ testList' = testList
             /\ <<pass', fail', err', numAsserts'>> = <<pass, fail, err, numAsserts>>
             /\ lastOp'.out = "return"
             /\ results' = [i \in 1..Len(testList) |-> <<"List", Label(testList[i])>>]]_vars

\* The first runTests() since resetTests() (or the construction) has ended and
\* has emitted a summary.
FirstRunReported == RunEnded /\ sinceReset.runs = 1 /\ summaries # <<>>

\* C13 as claimed: after resetTests(), addTest calls of which some are rejected
\* and one runTests(), the total of the summary is the length of the registry.
C13_TotalIsRegistryLength ==
    FirstRunReported => summaries[1].total = Len(testList)

\* C13 as amended: the total of that summary is the number of test functions
\* executed, which is the length of the registry, plus the number of addTest
\* calls rejected since resetTests(), each of which has added one to err.
C13_TotalCountsRejectedAddTests ==
    FirstRunReported =>
        /\ invoked = testList
        /\ summaries[1].total = Len(testList) + sinceReset.rejected
        /\ summaries[1].err >= sinceReset.rejected

\* C13 happens: one addTest was rejected, a passing and a failing test were
\* registered, and the summary of the run has a total of 3.
C13_Witness ==
    /\ FirstRunReported
    /\ sinceReset.rejected = 1
    /\ testList = <<Fun("testAssertsPass", TRUE), Fun("testAssertsFail_3", TRUE)>>
    /\ summaries = <<[pass |-> 1, fail |-> 1, err |-> 1, total |-> 3, asserts |-> 3]>>

\* C14: a turn of the loop of runTests, whatever the test function does to the
\* driver that runs it (addTest, resetTests), leaves the list of the test
\* functions the run executes as it was when runTests() was called, and adds
\* one to pass + fail + err, so that the counters account for the tests executed.
C14_RunExecutesRegistryAtCall ==
    [][(pc = "running" /\ idx <= Len(iter.list)) =>
        /\ iter'.list = iter.list
        /\ pass' + fail' + err' = pass + fail + err + 1]_vars

====
